---- MODULE Spec2Model ----
(***************************************************************************)
(* flake8-numbers: the NUM01 check of numeric literals.                    *)
(*                                                                         *)
(* A checker instance (Flake8NumbersChecker) holds the AST of one file,    *)
(* the file's name and a cache of the file's lines.  check_constant reads  *)
(* the text of a Constant node back from the source lines and checks the   *)
(* placement of its underscores; run walks the tree and yields a finding   *)
(* for every Constant that check_constant reports.                         *)
(*                                                                         *)
(* Text is modelled as a sequence of one-character strings.  An Optional   *)
(* value is a sequence of length 0 (None) or 1.                            *)
(***************************************************************************)
EXTENDS Integers, Sequences, FiniteSets

VARIABLES
    written,        \* ghost: how the constant of the file was written
    file,           \* the lines of the file named self._filename
    tree,           \* self._tree, as the nodes of ast.walk in order
    source_cache,   \* self._source_lines (None or the list of lines)
    opens,          \* ghost: number of times the file was opened and read
    result,         \* outcome of the last check_constant call
    checked,        \* fragments the last check_constant call handed on
    gen,            \* the generator made by the last run() call
    yielded         \* what that generator has yielded so far

vars == <<written, file, tree, source_cache, opens, result, checked, gen, yielded>>

\* ------------------------------------------------------------------ bounds

\* Most underscore-delimited groups in one digit run of a written literal.
MaxGroups == 2

\* Most groups in each digit run of the mantissa of a literal in scientific
\* notation.
SciGroups == 1

\* ------------------------------------------------------- Python's str type

None == <<>>

Some(x) == <<x>>

Min(a, b) == IF a < b THEN a ELSE b

\* str.lower on one character (the letters the literals here are made of).
LowerChar(c) ==
    CASE c = "E" -> "e"
      [] c = "X" -> "x"
      [] c = "B" -> "b"
      [] c = "O" -> "o"
      [] c = "A" -> "a"
      [] c = "T" -> "t"
      [] c = "F" -> "f"
      [] c = "N" -> "n"
      [] OTHER -> c

\* str.lower
Lower(s) == [i \in DOMAIN s |-> LowerChar(s[i])]

\* str.startswith
StartsWith(s, p) == Len(s) >= Len(p) /\ SubSeq(s, 1, Len(p)) = p

\* c in s, for a one-character c
Contains(s, c) == \E i \in DOMAIN s : s[i] = c

\* s[a:b] for 0 <= a, 0 <= b: both ends are clamped to the length of s.
Slice(s, a, b) == SubSeq(s, Min(a, Len(s)) + 1, Min(b, Len(s)))

\* s[a:]
SliceFrom(s, a) == SubSeq(s, Min(a, Len(s)) + 1, Len(s))

IsSpace(c) == c \in {" ", "\n"}

RECURSIVE LStrip(_)
LStrip(s) == IF s # <<>> /\ IsSpace(Head(s)) THEN LStrip(Tail(s)) ELSE s

RECURSIVE RStrip(_)
RStrip(s) ==
    IF s # <<>> /\ IsSpace(s[Len(s)]) THEN RStrip(SubSeq(s, 1, Len(s) - 1)) ELSE s

\* str.strip
Strip(s) == RStrip(LStrip(s))

\* Index of the first occurrence of c in s, 0 when there is none.
Find(s, c) ==
    IF Contains(s, c) THEN CHOOSE i \in DOMAIN s : s[i] = c /\ \A j \in 1..(i - 1) : s[j] # c
    ELSE 0

\* str.split(sep) for a one-character separator: always at least one piece,
\* and empty pieces are kept.
RECURSIVE Split(_, _)
Split(s, sep) ==
    LET i == Find(s, sep)
    IN  IF i = 0 THEN <<s>>
        ELSE <<SubSeq(s, 1, i - 1)>> \o Split(SubSeq(s, i + 1, Len(s)), sep)

\* "".join(pieces)
RECURSIVE Join(_)
Join(pieces) == IF pieces = <<>> THEN <<>> ELSE Head(pieces) \o Join(Tail(pieces))

\* ------------------------------------------- the constants a file may hold

\* The characters "var = " that the tests put before the constant.
AssignText == <<"v", "a", "r", " ", "=", " ">>

\* n copies of the character c
Rep(c, n) == [i \in 1..n |-> c]

\* A digit run written as groups of the given lengths, joined by underscores.
RECURSIVE Grouped(_, _)
Grouped(c, lens) ==
    IF lens = <<>> THEN <<>>
    ELSE IF Len(lens) = 1 THEN Rep(c, lens[1])
    ELSE Rep(c, lens[1]) \o <<"_">> \o Grouped(c, Tail(lens))

\* The group width the documentation gives each numeral system.
GroupWidth(base) == IF base = 10 THEN 3 ELSE 4

\* The ways to write a digit run of base `base` in at most n groups: every
\* group has from one digit to one digit more than the group width.
GroupLens(base, n) == UNION {[1..k -> 1..(GroupWidth(base) + 1)] : k \in 1..n}

NoLens == <<>>

Prefixes ==
    { [base |-> 2,  prefix |-> <<"0", "b">>, digit |-> "1"],
      [base |-> 2,  prefix |-> <<"0", "B">>, digit |-> "1"],
      [base |-> 8,  prefix |-> <<"0", "o">>, digit |-> "7"],
      [base |-> 8,  prefix |-> <<"0", "O">>, digit |-> "7"],
      [base |-> 16, prefix |-> <<"0", "x">>, digit |-> "A"],
      [base |-> 16, prefix |-> <<"0", "x">>, digit |-> "e"],
      [base |-> 16, prefix |-> <<"0", "X">>, digit |-> "A"],
      [base |-> 16, prefix |-> <<"0", "X">>, digit |-> "e"] }

Lit(type, base, prefix, digit, ip, point, fp, marker, esign, ep, word) ==
    [type |-> type, base |-> base, prefix |-> prefix, digit |-> digit, ip |-> ip,
     point |-> point, fp |-> fp, marker |-> marker, esign |-> esign, ep |-> ep,
     word |-> word]

\* decinteger
DecimalIntegers ==
    { Lit("int", 10, <<>>, "1", ip, FALSE, NoLens, <<>>, <<>>, NoLens, <<>>) :
        ip \in GroupLens(10, MaxGroups) }

\* bininteger, octinteger, hexinteger
PrefixedIntegers ==
    { Lit("int", p.base, p.prefix, p.digit, ip, FALSE, NoLens, <<>>, <<>>, NoLens, <<>>) :
        p \in Prefixes, ip \in GroupLens(16, MaxGroups) }

\* pointfloat: [digitpart] fraction | digitpart "."
PointFloats ==
    { Lit("float", 10, <<>>, "1", ip, TRUE, fp, <<>>, <<>>, NoLens, <<>>) :
        ip \in GroupLens(10, MaxGroups) \cup {NoLens},
        fp \in GroupLens(10, MaxGroups) \cup {NoLens} }
    \ { Lit("float", 10, <<>>, "1", NoLens, TRUE, NoLens, <<>>, <<>>, NoLens, <<>>) }

\* The mantissas of exponentfloat: digitpart | pointfloat
Mantissas ==
    { m \in [ip : GroupLens(10, SciGroups) \cup {NoLens}, point : BOOLEAN,
             fp : GroupLens(10, SciGroups) \cup {NoLens}] :
        /\ ~m.point => (m.fp = NoLens /\ m.ip # NoLens)
        /\ m.point => (m.ip # NoLens \/ m.fp # NoLens) }

\* exponentfloat: (digitpart | pointfloat) ("e" | "E") ["+" | "-"] digitpart.
\* The exponent is one run of digits: a float's exponent has at most three
\* digits before the value overflows, so four digits cover the long case.
ExponentFloats ==
    { Lit("float", 10, <<>>, "1", m.ip, m.point, m.fp, marker, esign, <<n>>, <<>>) :
        m \in Mantissas, marker \in {<<"e">>, <<"E">>},
        esign \in {<<>>, <<"-">>, <<"+">>}, n \in 1..(GroupWidth(10) + 1) }

\* Constants that are no int or float: True, False, None, an imaginary
\* number and a string.
OtherConstants ==
    { Lit("bool", 10, <<>>, "1", NoLens, FALSE, NoLens, <<>>, <<>>, NoLens, <<"T", "r", "u", "e">>),
      Lit("bool", 10, <<>>, "1", NoLens, FALSE, NoLens, <<>>, <<>>, NoLens, <<"F", "a", "l", "s", "e">>),
      Lit("NoneType", 10, <<>>, "1", NoLens, FALSE, NoLens, <<>>, <<>>, NoLens, <<"N", "o", "n", "e">>),
      Lit("complex", 10, <<>>, "1", NoLens, FALSE, NoLens, <<>>, <<>>, NoLens, <<"1", "1", "1", "1", "j">>),
      Lit("str", 10, <<>>, "1", NoLens, FALSE, NoLens, <<>>, <<>>, NoLens, <<"'", "1", "1", "1", "1", "'">>) }

NumericLiterals == DecimalIntegers \cup PrefixedIntegers \cup PointFloats \cup ExponentFloats

IsNumeric(l) == l.type \in {"int", "float"}

\* The text of a constant as it stands in the file.
Text(l) ==
    IF ~IsNumeric(l) THEN l.word
    ELSE l.prefix \o Grouped(l.digit, l.ip) \o (IF l.point THEN <<".">> ELSE <<>>)
         \o Grouped(l.digit, l.fp) \o l.marker \o l.esign \o Grouped(l.digit, l.ep)

\* What a file holds: optional lines before the statement, then the
\* statement `var = <sign><constant>`.  A minus sign is a unary operator
\* applied to the constant, not a part of it.
Written ==
    { [lit |-> l, sign |-> s, header |-> h] :
        l \in NumericLiterals, s \in {<<>>, <<"-">>}, h \in {<<>>, <<<<"#", "\n">>>>} }
    \cup
    { [lit |-> l, sign |-> <<>>, header |-> h] :
        l \in OtherConstants, h \in {<<>>, <<<<"#", "\n">>>>} }

\* file_contents = "var = " + code + "\n", after the header lines
FileOf(w) == w.header \o << AssignText \o w.sign \o Text(w.lit) \o <<"\n">> >>

Node(kind, value_type, lineno, col_offset, end_col_offset) ==
    [kind |-> kind, value_type |-> value_type, lineno |-> lineno,
     col_offset |-> col_offset, end_lineno |-> lineno, end_col_offset |-> end_col_offset]

\* ast.parse of the file, as the list ast.walk makes of it (breadth first).
\* The Constant node spans the constant's own text.  The file is ASCII, so
\* a column counts bytes and characters alike.
TreeOf(w) ==
    LET line == Len(w.header) + 1
        start == Len(AssignText) + Len(w.sign)
        stop == start + Len(Text(w.lit))
        constant == Node("Constant", w.lit.type, line, start, stop)
        module == Node("Module", "", 0, 0, 0)
        assign == Node("Assign", "", line, 0, stop)
        name == Node("Name", "", line, 0, 3)
        store == Node("Store", "", 0, 0, 0)
    IN  IF w.sign = <<>>
        THEN <<module, assign, name, constant, store>>
        ELSE <<module, assign, name,
               Node("UnaryOp", "", line, Len(AssignText), stop),
               store, Node("USub", "", 0, 0, 0), constant>>

\* --------------------------------------------------------- check_numbers.py

\* ErrorReport(line, column, message).  The message is the f-string
\* "NUM01: Use underscores every {modulo} digits in large numeric literals
\* ({original_literal}) for better readability.", kept as its three parts.
ErrorReport(line, column, modulo, original_literal) ==
    [line |-> line, column |-> column,
     message |-> [code |-> "NUM01", modulo |-> modulo, literal |-> original_literal]]

base_value(number_literal) ==
    LET lower_number_literal == Lower(number_literal)
    IN  IF StartsWith(lower_number_literal, <<"0", "b">>) THEN 2
        ELSE IF StartsWith(lower_number_literal, <<"0", "o">>) THEN 8
        ELSE IF StartsWith(lower_number_literal, <<"0", "x">>) THEN 16
        ELSE 10

\* Mutant: the `case 16` arm is missing, so hexadecimal falls to the default.
separator_modulo_without_hex(base) ==
    CASE base = 2 -> 4
      [] base = 8 -> 4
      [] OTHER -> 3

separator_modulo_for_base(base) ==
    CASE base = 2 -> 4
      [] base = 8 -> 4
      [] base = 16 -> 4
      [] OTHER -> 3

\* Mutant: the property reads the file at every access.
source_lines_uncached(cache, reads, contents) ==
    [value |-> contents, cache |-> Some(contents), opens |-> reads + 1]

\* The source_lines property: the value it returns, and the cache and the
\* count of reads of the file after the access.
source_lines(cache, reads, contents) ==
    IF cache = None
    THEN [value |-> contents, cache |-> Some(contents), opens |-> reads + 1]
    ELSE [value |-> cache[1], cache |-> cache, opens |-> reads]

\* Mutant: the slice starts one column early.
extract_code_one_early(node, lines) ==
    LET picked == Slice(lines, node.lineno - 1, node.end_lineno)
    IN  Join([i \in DOMAIN picked |->
                Strip(Slice(picked[i], node.col_offset - 1, node.end_col_offset))])

\* _extract_code, given the list the source_lines property returned
extract_code(node, lines) ==
    LET start_line == node.lineno
        start_col == node.col_offset
        end_line == node.end_lineno
        end_col == node.end_col_offset
        picked == Slice(lines, start_line - 1, end_line)
    IN  Join([i \in DOMAIN picked |-> Strip(Slice(picked[i], start_col, end_col))])

\* Mutant: a later part is only refused when it is longer than modulo.
invalid_part_longer_only(i, part, modulo) == Len(part) > modulo

\* The test of one underscore-delimited part in _check_underscore_modulos.
invalid_part(i, part, modulo) ==
    LET invalid_first_part == i = 0 /\ Len(part) > modulo
        invalid_continuation_part == i # 0 /\ Len(part) # modulo
    IN  invalid_first_part \/ invalid_continuation_part

\* Mutant: the message names the fragment, not the literal.
check_underscore_modulos_fragment(fragment, original_literal, modulo, node) ==
    LET parts == Split(fragment, "_")
    IN  IF \E k \in DOMAIN parts : invalid_part(k - 1, parts[k], modulo)
        THEN Some(ErrorReport(node.lineno, node.col_offset, modulo, fragment))
        ELSE None

\* _check_underscore_modulos: Optional[ErrorReport]
check_underscore_modulos(fragment, original_literal, modulo, node) ==
    LET parts == Split(fragment, "_")
    IN  IF \E k \in DOMAIN parts : invalid_part(k - 1, parts[k], modulo)
        THEN Some(ErrorReport(node.lineno, node.col_offset, modulo, original_literal))
        ELSE None

\* Mutant: every Constant is taken for a number.
is_number_any(node) == node.kind = "Constant"

\* type(node.value) in (int, float)
is_number(node) == node.value_type \in {"int", "float"}

\* The list `parts` check_constant builds; e_parts[1] raises IndexError
\* when the split at "e" leaves one piece.
literal_parts(original_literal) ==
    LET is_decimal == base_value(original_literal) = 10
        is_science_notation == is_decimal /\ Contains(Lower(original_literal), "e")
        is_float == Contains(original_literal, ".")
        e_parts == Split(original_literal, "e")
        frac_parts == Split(e_parts[1], ".")
    IN  IF is_science_notation
        THEN IF Len(e_parts) < 2
             THEN [raised |-> TRUE, parts |-> <<>>]
             ELSE [raised |-> FALSE, parts |-> frac_parts \o <<e_parts[2]>>]
        ELSE IF is_float
        THEN [raised |-> FALSE, parts |-> Split(original_literal, ".")]
        ELSE IF ~is_decimal
        THEN [raised |-> FALSE, parts |-> <<SliceFrom(original_literal, 2)>>]
        ELSE [raised |-> FALSE, parts |-> <<original_literal>>]

\* The loop over `parts`: the fragments handed to _check_underscore_modulos,
\* up to and with the first that is reported, and that report.
RECURSIVE check_parts(_, _, _, _)
check_parts(parts, original_literal, separator_modulo, node) ==
    IF parts = <<>> THEN [report |-> None, checked |-> <<>>]
    ELSE LET error == check_underscore_modulos(Head(parts), original_literal,
                                               separator_modulo, node)
             rest == check_parts(Tail(parts), original_literal, separator_modulo, node)
         IN  IF error # None THEN [report |-> error, checked |-> <<Head(parts)>>]
             ELSE [report |-> rest.report, checked |-> <<Head(parts)>> \o rest.checked]

Outcome(status, report, fragments, cache, reads) ==
    [status |-> status, report |-> report, checked |-> fragments,
     cache |-> cache, opens |-> reads]

\* check_constant: what the call returns or raises, and the cache after it.
check_constant(node, cache, reads, contents) ==
    IF ~is_number(node) THEN Outcome("returned", None, <<>>, cache, reads)
    ELSE
    LET got == source_lines(cache, reads, contents)
        original_literal == extract_code(node, got.value)
        separator_modulo == separator_modulo_for_base(base_value(original_literal))
        split == literal_parts(original_literal)
        loop == check_parts(split.parts, original_literal, separator_modulo, node)
    IN  IF original_literal \in {<<"T", "r", "u", "e">>, <<"F", "a", "l", "s", "e">>}
        THEN Outcome("returned", None, <<>>, got.cache, got.opens)
        ELSE IF split.raised
        THEN Outcome("raised", None, <<>>, got.cache, got.opens)
        ELSE Outcome("returned", loop.report, loop.checked, got.cache, got.opens)

\* One turn of the loop of run at the Constant node `pos`: `o` is what
\* check_constant gave for it, `rest` the loop from the next node on.
run_step(pos, o, rest) ==
    IF o.status = "raised"
    THEN [state |-> "raised", pos |-> pos, last |-> Some(pos), out |-> o]
    ELSE IF o.report # None
    THEN [state |-> "suspended", pos |-> pos + 1, last |-> Some(pos), out |-> o]
    ELSE IF rest.last = None
    THEN [rest EXCEPT !.last = Some(pos),
                      !.out = [o EXCEPT !.cache = rest.out.cache, !.opens = rest.out.opens]]
    ELSE rest

\* The loop of run from node `pos` on, up to the next yield, the end of the
\* walk or an exception of check_constant.
RECURSIVE run_from(_, _, _, _, _)
run_from(pos, nodes, cache, reads, contents) ==
    IF pos > Len(nodes)
    THEN [state |-> "exhausted", pos |-> pos, last |-> None,
          out |-> Outcome("none", None, <<>>, cache, reads)]
    ELSE IF nodes[pos].kind # "Constant"
    THEN run_from(pos + 1, nodes, cache, reads, contents)
    ELSE LET o == check_constant(nodes[pos], cache, reads, contents)
         IN  run_step(pos, o, run_from(pos + 1, nodes, o.cache, o.opens, contents))

\* ------------------------------------------------------------ the machine

NoResult == [status |-> "idle", node |-> 0, report |-> None]

NoGenerator == [state |-> "none", pos |-> 0]

\* Flake8NumbersChecker(tree, filename) on a file of the tests' shape
Init ==
    /\ written \in Written
    /\ file = FileOf(written)
    /\ tree = TreeOf(written)
    /\ source_cache = None
    /\ opens = 0
    /\ result = NoResult
    /\ checked = <<>>
    /\ gen = NoGenerator
    /\ yielded = <<>>

\* checker.source_lines
ReadSourceLines ==
    LET got == source_lines(source_cache, opens, file)
    IN  /\ source_cache' = got.cache
        /\ opens' = got.opens
        /\ UNCHANGED <<written, file, tree, result, checked, gen, yielded>>

\* checker.check_constant(node), for a Constant node of the tree
CheckConstant(n) ==
    /\ tree[n].kind = "Constant"
    /\ \E o \in {check_constant(tree[n], source_cache, opens, file)} :
           /\ source_cache' = o.cache
           /\ opens' = o.opens
           /\ result' = [status |-> o.status, node |-> n, report |-> o.report]
           /\ checked' = o.checked
    /\ UNCHANGED <<written, file, tree, gen, yielded>>

\* checker.run(): makes the generator; nothing of its body runs yet
RunCall ==
    /\ gen' = [state |-> "suspended", pos |-> 1]
    /\ yielded' = <<>>
    /\ UNCHANGED <<written, file, tree, source_cache, opens, result, checked>>

\* next() on the generator: the walk goes on to the next finding
RunNext ==
    /\ gen.state = "suspended"
    /\ \E r \in {run_from(gen.pos, tree, source_cache, opens, file)} :
           /\ gen' = [state |-> r.state, pos |-> r.pos]
           /\ source_cache' = r.out.cache
           /\ opens' = r.out.opens
           /\ IF r.last = None
              THEN UNCHANGED <<result, checked>>
              ELSE /\ result' = [status |-> r.out.status, node |-> r.last[1],
                                 report |-> r.out.report]
                   /\ checked' = r.out.checked
           /\ yielded' =
                IF r.state = "suspended"
                THEN Append(yielded, <<r.out.report[1].line, r.out.report[1].column,
                                       r.out.report[1].message, "Flake8NumbersChecker">>)
                ELSE yielded
    /\ UNCHANGED <<written, file, tree>>

Next ==
    \/ ReadSourceLines
    \/ \E n \in DOMAIN tree : CheckConstant(n)
    \/ RunCall
    \/ RunNext

Spec == Init /\ [][Next]_vars

\* ------------------------------------------------------------- the claims

W == written.lit

\* check_constant has been called on the Constant node of the file.
Done == result.status # "idle"

\* check_constant returned an ErrorReport.
Flagged == result.report # None

\* A digit run written in groups of these lengths follows the grouping rule
\* of width m: a leading group of at most m digits, then groups of m.
WellGrouped(lens, m) ==
    lens = <<>> \/ (lens[1] <= m /\ \A i \in 2..Len(lens) : lens[i] = m)

IsPrefix(s, t) == Len(s) <= Len(t) /\ SubSeq(t, 1, Len(s)) = s

DecimalDigits == {"0", "1", "2", "3", "4", "5", "6", "7", "8", "9"}

DigitsOf(base) ==
    CASE base = 2 -> {"0", "1"}
      [] base = 8 -> {"0", "1", "2", "3", "4", "5", "6", "7"}
      [] base = 16 -> DecimalDigits \cup {"a", "b", "c", "d", "e", "f",
                                          "A", "B", "C", "D", "E", "F"}
      [] OTHER -> DecimalDigits

\* The regions of the written literal in order: integer part, fractional
\* part (after a decimal point), exponent part (after the marker).
WrittenParts(l) ==
    <<l.prefix \o Grouped(l.digit, l.ip)>>
    \o (IF l.point THEN <<Grouped(l.digit, l.fp)>> ELSE <<>>)
    \o (IF l.marker # <<>> THEN <<l.esign \o Grouped(l.digit, l.ep)>> ELSE <<>>)

\* The group lengths of those regions, in the same order.
WrittenLens(l) ==
    <<l.ip>> \o (IF l.point THEN <<l.fp>> ELSE <<>>)
    \o (IF l.marker # <<>> THEN <<l.ep>> ELSE <<>>)

\* C1: check_constant is total over the valid numeric literals of every
\* shape: the call returns (no finding or one finding) and never raises.
C1_Total == (Done /\ IsNumeric(W)) => result.status = "returned"

\* C2: a plain integer literal without underscore is reported if and only if
\* it has more digits than the group width of its numeral system (3 for
\* decimal, 4 after the prefix for binary, octal and hexadecimal).
C2_UngroupedInteger ==
    (Done /\ W.type = "int" /\ Len(W.ip) = 1)
        => /\ result.status = "returned"
           /\ Flagged <=> W.ip[1] > GroupWidth(W.base)

C2_Witness ==
    /\ Done /\ W.type = "int" /\ W.prefix = <<"0", "X">> /\ W.ip = <<4>> /\ ~Flagged
    /\ written.sign = <<"-">>

\* C3: a literal of group width m is not reported if and only if each of its
\* digit runs (integer, fractional, exponent part) has a leading group of at
\* most m digits and only groups of exactly m digits after it.
C3_GroupingRule ==
    (Done /\ IsNumeric(W))
        => (~Flagged <=> \A i \in DOMAIN WrittenLens(W) :
                            WellGrouped(WrittenLens(W)[i], GroupWidth(W.base)))

\* C4: a literal in scientific notation whose mantissa is correctly grouped
\* and whose exponent is an ungrouped run of more than 3 digits is reported.
C4_LongExponent ==
    (/\ Done /\ W.marker # <<>>
     /\ WellGrouped(W.ip, 3) /\ WellGrouped(W.fp, 3)
     /\ Len(W.ep) = 1 /\ W.ep[1] > 3)
        => Flagged

\* C5: a decimal literal with a decimal point and no exponent is split at
\* the point into the integer part and the fractional part, both checked with
\* width 3: it is reported if and only if one of the two breaks the rule.
C5_PointFloat ==
    (Done /\ W.point /\ W.marker = <<>>)
        => /\ result.status = "returned"
           /\ Flagged <=> ~(WellGrouped(W.ip, 3) /\ WellGrouped(W.fp, 3))
           /\ IsPrefix(checked, <<Grouped(W.digit, W.ip), Grouped(W.digit, W.fp)>>)
           /\ ~Flagged => Len(checked) = 2

C5_Witness ==
    /\ Done /\ W.point /\ W.marker = <<>>
    /\ W.ip = <<1, 3>> /\ W.fp = <<3, 2>> /\ Flagged /\ Len(checked) = 2

\* The outcome of check_constant on the same constant written without sign.
Unsigned ==
    LET u == [written EXCEPT !.sign = <<>>]
    IN  check_constant(TreeOf(u)[4], None, 0, FileOf(u))

\* C6: a minus sign before a literal changes nothing of what check_constant
\* makes of it: the same outcome, the same fragments checked, the same
\* message as for the literal written without the sign.
C6_SignNeutral ==
    (Done /\ written.sign = <<"-">>)
        => /\ result.status = Unsigned.status
           /\ Flagged <=> Unsigned.report # None
           /\ checked = Unsigned.checked
           /\ Flagged => result.report[1].message = Unsigned.report[1].message

C6_Witness ==
    /\ Done /\ written.sign = <<"-">> /\ W.prefix = <<"0", "x">>
    /\ W.ip = <<2, 4>> /\ ~Flagged /\ result.status = "returned"

\* C7: a constant whose value is no int and no float (True, False, None, an
\* imaginary number, a string) never gives a finding: check_constant returns
\* None without reading its text and run yields nothing.
C7_OtherConstants ==
    ~IsNumeric(W)
        => /\ result.status \in {"idle", "returned"}
           /\ ~Flagged
           /\ checked = <<>>
           /\ yielded = <<>>
           /\ gen.state # "raised"

C7_Witness ==
    /\ W.type = "NoneType" /\ Done /\ gen.state = "exhausted" /\ yielded = <<>>

\* C8: every fragment handed to _check_underscore_modulos holds only digits
\* of the literal's numeral system and underscores.
C8_DigitsOnly ==
    \A i \in DOMAIN checked : \A j \in DOMAIN checked[i] :
        checked[i][j] \in DigitsOf(W.base) \cup {"_"}

\* The tuple run yields for an ErrorReport.
YieldOf(report) == <<report.line, report.column, report.message, "Flake8NumbersChecker">>

C10_ReadOnce ==
    /\ opens <= 1
    /\ source_cache = None <=> opens = 0
    /\ source_cache # None => source_cache = Some(FileOf(written))

C10_Witness ==
    /\ opens = 1 /\ Done /\ gen.state = "exhausted" /\ IsNumeric(W)

====
